---- MODULE Spec2Model ----
(***************************************************************************)
(* Review scheduling and session lifecycle of LinguistPro (src/App.tsx):   *)
(* the session store, handleFinishLearning (the Ebbinghaus rescheduling),  *)
(* checkReviews (the notifier tick) and the handlers that feed them.       *)
(*                                                                         *)
(* Time is the value of Date.now(), counted in clock units; one day is     *)
(* ClockUnitsPerDay units.  A handler runs to completion on the single     *)
(* JavaScript thread, so all Date.now() reads of one handler return the    *)
(* same instant.  A LearningSession is a record that carries exactly the   *)
(* fields the object has: an optional field that was never written is not  *)
(* in the record's domain.  The content fields (extractedText, words,      *)
(* translations) are never read by the scheduling code and are left out.   *)
(*                                                                         *)
(* Init is the state after the mount effects of a first launch: nothing    *)
(* was persisted, so the store is empty.  The interval that runs           *)
(* checkReviews is re-created by the effect whenever sessions changes, so  *)
(* the sessions its closure reads are the current store.  The variable     *)
(* last records what the most recent run of checkReviews or                *)
(* handleFinishLearning read and did; no handler reads it.                 *)
(***************************************************************************)
EXTENDS Integers, Sequences, FiniteSets, TLC

\* ---- bounds of the model ------------------------------------------------
ClockUnitsPerDay == 1
MaxTime == 3
MaxSessions == 2
MaxReviewCount == 7
HorizonDays == 8
MaxCurrent == 25
StoredGoalDepth == 2
TickPeriod == 2

VARIABLES
    dateNow,              \* Date.now()
    sessions,             \* useState<LearningSession[]>: the session store
    currentSession,       \* useState<Partial<LearningSession>>
    permission,           \* Notification.permission
    notification,         \* the displayed 'linguist-review' notification
    last,                 \* what the last run of checkReviews / handleFinishLearning did
    crossings,            \* per alerted session: its alerts so far, and whether it was
                          \* reviewed since the last one (kept under SpecCrossing only)
    vocabulary,           \* useState<VocabularyWord[]> (changes under SpecProgress only)
    dailyProgress,        \* the memoised value of the dailyProgress useMemo
    progressBar,          \* the props of the new-words ProgressBar and what it
                          \* rendered from them (changes under SpecProgressBar only)
    loading,              \* useState(false): the loading flag (SpecAnalysis only)
    selectedWord,         \* useState<WordDetail or null>
    call,                 \* the Analysis Service call in flight, and how the last one ended
    storage,              \* the item 'linguist_sessions' of localStorage (SpecMount only)
    mount,                \* how far the mount of the App component has come, and what it read
    interval              \* the steps left until the 60 s interval fires (SpecTimer only)

vars == <<dateNow, sessions, currentSession, permission, notification, last,
          crossings, vocabulary, dailyProgress, progressBar,
          loading, selectedWord, call,
          storage, mount,
          interval>>

timerVars == <<interval>>

storageVars == <<storage, mount>>

analysisVars == <<loading, selectedWord, call>>

\* ---- values ---------------------------------------------------------------
EBBINGHAUS_INTERVALS == <<1, 2, 4, 7, 15, 30>>

\* what a read past the end of an array yields, and every sum that uses it
NaN == -1

\* days * 24 * 60 * 60 * 1000, in clock units
DaysToMs(days) == days * ClockUnitsPerDay

\* Date.now() + (daysToAdd * 24 * 60 * 60 * 1000)
AddDays(t, days) == IF days = NaN THEN NaN ELSE t + DaysToMs(days)

\* Math.min
Min(a, b) == IF a <= b THEN a ELSE b

\* {} : an object with no fields
EmptyObject == [k \in {} |-> 0]

\* null
Null == [null |-> TRUE]

\* no Analysis Service call was made yet
NoCall == [state |-> "idle"]

\* what localStorage.getItem returns for a key that was written (null otherwise)
Item(text) == [text |-> text]

\* JSON.stringify of the sessions array: the text, kept as the array of the objects
\* it spells out; a number that is NaN is written as null
JSONStringify(arr) ==
    [i \in 1..Len(arr) |->
        [k \in DOMAIN arr[i] |->
            IF k # "id" /\ arr[i][k] = NaN THEN Null ELSE arr[i][k]]]

\* JSON.parse of a text written by JSON.stringify: the array it spells out
JSONParseArray(text) == [i \in 1..Len(text) |-> text[i]]

\* the App is mounted and its mount effects are done
Running == [phase |-> "running"]

\* no notification is displayed
NoNotification == [shown |-> FALSE]

\* obj.f is present and truthy (a number other than 0)
Truthy(obj, f) == f \in DOMAIN obj /\ obj[f] # 0

\* { ...obj, ...upd }
Spread(obj, upd) ==
    [k \in (DOMAIN obj) \cup (DOMAIN upd) |->
        IF k \in DOMAIN upd THEN upd[k] ELSE obj[k]]

\* arr[i] of a JavaScript array (0-based)
ArrayAt(arr, i) == IF i >= 0 /\ i < Len(arr) THEN arr[i + 1] ELSE NaN

\* s.reviewCount || 0
ReviewCountOrZero(s) == IF Truthy(s, "reviewCount") THEN s.reviewCount ELSE 0

\* the ids of a list of sessions
Ids(seq) == {seq[i].id : i \in 1..Len(seq)}

\* Date.now().toString()
NewId(t) == ToString(t)

\* prev.find(s => s.id === id): the index of the first match, 0 when none
FindIndex(seq, id) ==
    IF \E i \in 1..Len(seq) : seq[i].id = id
    THEN CHOOSE i \in 1..Len(seq) :
            /\ seq[i].id = id
            /\ \A j \in 1..(i - 1) : seq[j].id # id
    ELSE 0

\* neither checkReviews nor handleFinishLearning has run yet
NoRun == [op |-> "none"]

\* ---- the scheduler (handleFinishLearning) ------------------------------------
\* mutant: the stage index wraps around the table instead of stopping at its end
NextIntervalIndex_Wraps(existing) ==
    (ReviewCountOrZero(existing) + 1) % Len(EBBINGHAUS_INTERVALS)

\* mutant: the stage index runs down the table
NextIntervalIndex_CountsDown(existing) ==
    Len(EBBINGHAUS_INTERVALS) - 1
        - Min(ReviewCountOrZero(existing), Len(EBBINGHAUS_INTERVALS) - 1)

\* mutant: the stage index is not clamped to the table
NextIntervalIndex_Unclamped(existing) == ReviewCountOrZero(existing) + 1

\* Math.min((existing.reviewCount || 0) + 1, EBBINGHAUS_INTERVALS.length - 1)
NextIntervalIndex(existing) ==
    Min(ReviewCountOrZero(existing) + 1, Len(EBBINGHAUS_INTERVALS) - 1)

\* mutant: the stored counter is clamped like the stage index
CompleteExisting_ClampedCount(s, daysToAdd, t) ==
    Spread(s, [reviewCount    |-> Min(ReviewCountOrZero(s) + 1, Len(EBBINGHAUS_INTERVALS) - 1),
               nextReviewAt   |-> AddDays(t, daysToAdd),
               lastNotifiedAt |-> 0,
               lastReviewedAt |-> t])

\* mutant: the watermark is set to the new due time instead of being cleared
CompleteExisting_WatermarkAtDue(s, daysToAdd, t) ==
    Spread(s, [reviewCount    |-> ReviewCountOrZero(s) + 1,
               nextReviewAt   |-> AddDays(t, daysToAdd),
               lastNotifiedAt |-> AddDays(t, daysToAdd),
               lastReviewedAt |-> t])

\* mutant: the watermark is left as it was
CompleteExisting_KeepsWatermark(s, daysToAdd, t) ==
    Spread(s, [reviewCount    |-> ReviewCountOrZero(s) + 1,
               nextReviewAt   |-> AddDays(t, daysToAdd),
               lastReviewedAt |-> t])

\* the record written over an existing one
CompleteExisting(s, daysToAdd, t) ==
    Spread(s, [reviewCount    |-> ReviewCountOrZero(s) + 1,
               nextReviewAt   |-> AddDays(t, daysToAdd),
               lastNotifiedAt |-> 0,
               lastReviewedAt |-> t])

\* mutant: the first completion keeps the schedule written at capture
CompleteNew_KeepsSchedule(cur, t) ==
    Spread(cur, [reviewCount    |-> 1,
                 lastReviewedAt |-> t])

\* mutant: the captured session is stored as it is, only its schedule is rewritten
CompleteNew_PreReview(cur, t) ==
    Spread(cur, [nextReviewAt |-> AddDays(t, ArrayAt(EBBINGHAUS_INTERVALS, 0))])

\* the record prepended for a session that is not in the store
CompleteNew(cur, t) ==
    Spread(cur, [reviewCount    |-> 1,
                 nextReviewAt   |-> AddDays(t, ArrayAt(EBBINGHAUS_INTERVALS, 0)),
                 lastReviewedAt |-> t])

\* mutant: the existing record is rebuilt from the snapshot held by the UI
FinishUpdater_FromSnapshot(prev, cur, t) ==
    LET e == FindIndex(prev, cur.id) IN
    IF e # 0
    THEN LET daysToAdd == ArrayAt(EBBINGHAUS_INTERVALS, NextIntervalIndex(cur)) IN
         [i \in 1..Len(prev) |->
            IF prev[i].id = cur.id THEN CompleteExisting(cur, daysToAdd, t)
            ELSE prev[i]]
    ELSE <<CompleteNew(cur, t)>> \o prev

\* mutant: a new record is appended instead of prepended
FinishUpdater_Appends(prev, cur, t) ==
    LET e == FindIndex(prev, cur.id) IN
    IF e # 0
    THEN LET daysToAdd == ArrayAt(EBBINGHAUS_INTERVALS, NextIntervalIndex(prev[e])) IN
         [i \in 1..Len(prev) |->
            IF prev[i].id = cur.id THEN CompleteExisting(prev[i], daysToAdd, t)
            ELSE prev[i]]
    ELSE prev \o <<CompleteNew(cur, t)>>

\* mutant: the map forgets the id test and rewrites every record
FinishUpdater_AllRecords(prev, cur, t) ==
    LET e == FindIndex(prev, cur.id) IN
    IF e # 0
    THEN LET daysToAdd == ArrayAt(EBBINGHAUS_INTERVALS, NextIntervalIndex(prev[e])) IN
         [i \in 1..Len(prev) |-> CompleteExisting(prev[i], daysToAdd, t)]
    ELSE <<CompleteNew(cur, t)>> \o prev

\* mutant: the new-entry branch forgets ...prev
FinishUpdater_DropsPrev(prev, cur, t) ==
    LET e == FindIndex(prev, cur.id) IN
    IF e # 0
    THEN LET daysToAdd == ArrayAt(EBBINGHAUS_INTERVALS, NextIntervalIndex(prev[e])) IN
         [i \in 1..Len(prev) |->
            IF prev[i].id = cur.id THEN CompleteExisting(prev[i], daysToAdd, t)
            ELSE prev[i]]
    ELSE <<CompleteNew(cur, t)>>

\* mutant: the store is not searched, every completion prepends a record
FinishUpdater_AlwaysPrepends(prev, cur, t) ==
    <<CompleteNew(cur, t)>> \o prev

\* the updater passed to setSessions
FinishUpdater(prev, cur, t) ==
    LET e == FindIndex(prev, cur.id) IN
    IF e # 0
    THEN LET daysToAdd == ArrayAt(EBBINGHAUS_INTERVALS, NextIntervalIndex(prev[e])) IN
         [i \in 1..Len(prev) |->
            IF prev[i].id = cur.id THEN CompleteExisting(prev[i], daysToAdd, t)
            ELSE prev[i]]
    ELSE <<CompleteNew(cur, t)>> \o prev

\* ---- the notifier (checkReviews) ---------------------------------------------
\* mutant: the filter forgets the watermark
IsNewlyDue_IgnoresWatermark(s, t) == s.nextReviewAt <= t

\* mutant: a session is due only after its due time, not at it
IsNewlyDue_StrictlyPast(s, t) ==
    /\ s.nextReviewAt < t
    /\ (~Truthy(s, "lastNotifiedAt") \/ s.lastNotifiedAt < s.nextReviewAt)

\* the filter of checkReviews
IsNewlyDue(s, t) ==
    /\ s.nextReviewAt <= t
    /\ (~Truthy(s, "lastNotifiedAt") \/ s.lastNotifiedAt < s.nextReviewAt)

\* mutant: the newly-due list comes out newest-due first
DueSessions_Reversed(seq, t) ==
    LET due == SelectSeq(seq, LAMBDA s : IsNewlyDue(s, t)) IN
    [i \in 1..Len(due) |-> due[Len(due) + 1 - i]]

\* sessions.filter(...)
DueSessions(seq, t) == SelectSeq(seq, LAMBDA s : IsNewlyDue(s, t))

\* mutant: the watermark records the due time instead of the time of the alert
MarkNotified_DueTime(s, t) == Spread(s, [lastNotifiedAt |-> s.nextReviewAt])

\* { ...s, lastNotifiedAt: Date.now() }
MarkNotified(s, t) == Spread(s, [lastNotifiedAt |-> t])

\* mutant: only the session the alert navigates to is marked
NotifyUpdater_FirstOnly(prev, due, t) ==
    [i \in 1..Len(prev) |->
        IF due[1].id = prev[i].id THEN MarkNotified(prev[i], t) ELSE prev[i]]

\* prev.map(s => dueSessions.some(ds => ds.id === s.id) ? {...} : s)
NotifyUpdater(prev, due, t) ==
    [i \in 1..Len(prev) |->
        IF \E k \in 1..Len(due) : due[k].id = prev[i].id
        THEN MarkNotified(prev[i], t) ELSE prev[i]]

\* ---- sessions.sort((a,b) => a.nextReviewAt - b.nextReviewAt), stable ----------
RECURSIVE InsertSorted(_, _)
InsertSorted(sorted, s) ==
    IF sorted = <<>> THEN <<s>>
    ELSE IF Head(sorted).nextReviewAt <= s.nextReviewAt
         THEN <<Head(sorted)>> \o InsertSorted(Tail(sorted), s)
         ELSE <<s>> \o sorted

RECURSIVE SortByNextReviewAt(_)
SortByNextReviewAt(seq) ==
    IF seq = <<>> THEN <<>>
    ELSE InsertSorted(SortByNextReviewAt(SubSeq(seq, 1, Len(seq) - 1)), seq[Len(seq)])

\* useState<UserGoals>({ dailyNewWords: 5, ... }) and the range of its slider
DefaultDailyNewWords == 5
GoalSliderMin == 1
GoalSliderMax == 50

\* ---- initial state -----------------------------------------------------------
Init ==
    /\ dateNow = 1
    /\ sessions = <<>>
    /\ currentSession = EmptyObject
    /\ permission \in {"default", "granted", "denied"}
    /\ notification = NoNotification
    /\ last = NoRun
    /\ crossings = EmptyObject
    /\ vocabulary = <<>>
    /\ dailyProgress = [at |-> 1, newWords |-> 0, reviews |-> 0]
    /\ progressBar = [current |-> 0, goal |-> DefaultDailyNewWords]
    /\ loading = FALSE
    /\ selectedWord = Null
    /\ call = NoCall
    /\ storage = Item(JSONStringify(<<>>))
    /\ mount = Running
    /\ interval = TickPeriod

\* ---- actions -----------------------------------------------------------------
\* the wall clock moves on
Advance ==
    /\ dateNow < MaxTime
    /\ dateNow' = dateNow + 1
    /\ UNCHANGED <<sessions, currentSession, permission, notification, last>>

\* the session object built by both capture paths
CapturedSession(t) ==
    [id           |-> NewId(t),
     createdAt    |-> t,
     reviewCount  |-> 0,
     nextReviewAt |-> t + DaysToMs(1)]

\* processImageBase64, when extractTextFromImage has resolved
ProcessImageBase64 ==
    /\ Len(sessions) < MaxSessions
    /\ currentSession' = CapturedSession(dateNow)
    /\ UNCHANGED <<dateNow, sessions, permission, notification, last>>

\* handleManualSubmit, with a non-blank input
HandleManualSubmit ==
    /\ Len(sessions) < MaxSessions
    /\ currentSession' = CapturedSession(dateNow)
    /\ UNCHANGED <<dateNow, sessions, permission, notification, last>>

\* the review centre is rendered: sessions.sort(...) sorts the state array in place
RenderReviewCenter ==
    /\ Len(sessions) > 0
    /\ sessions' = SortByNextReviewAt(sessions)
    /\ UNCHANGED <<dateNow, currentSession, permission, notification, last>>

\* the button of a row of the review centre: setCurrentSession(s)
SelectSession ==
    /\ Len(sessions) > 0
    /\ \E i \in 1..Len(sessions) :
          /\ sessions' = SortByNextReviewAt(sessions)
          /\ currentSession' = sessions'[i]
    /\ UNCHANGED <<dateNow, permission, notification, last>>

\* n.onclick: the session captured when the notification was built
NotificationClick ==
    /\ notification.shown
    /\ currentSession' = notification.firstSession
    /\ notification' = NoNotification
    /\ UNCHANGED <<dateNow, sessions, permission, last>>

\* toggleNotifications: an undetermined permission is asked for, and the user
\* grants it, denies it or dismisses the prompt
ToggleNotifications ==
    /\ permission = "default"
    /\ permission' \in {"granted", "denied", "default"}
    /\ UNCHANGED <<dateNow, sessions, currentSession, notification, last>>

\* handleFinishLearning
HandleFinishLearning ==
    /\ "id" \in DOMAIN currentSession
    /\ LET e == FindIndex(sessions, currentSession.id) IN
          e # 0 => ReviewCountOrZero(sessions[e]) < MaxReviewCount
    /\ sessions' = FinishUpdater(sessions, currentSession, dateNow)
    /\ currentSession' = EmptyObject
    /\ last' = [op      |-> "handleFinishLearning",
                at      |-> dateNow,
                session |-> currentSession,
                before  |-> sessions]
    /\ UNCHANGED <<dateNow, permission, notification>>

\* mutant: the permission is not looked at
NotificationPermitted_Always == TRUE

\* Notification.permission === 'granted'
NotificationPermitted == permission = "granted"

\* what a run of checkReviews did
TickResult(due) ==
    [op        |-> "checkReviews",
     at        |-> dateNow,
     permitted |-> NotificationPermitted,
     issued    |-> due # <<>>,
     due       |-> Ids(due),
     before    |-> sessions]

\* checkReviews, run by the 60 s interval
CheckReviews ==
    LET dueSessions == DueSessions(sessions, dateNow) IN
    IF ~NotificationPermitted
    THEN /\ last' = TickResult(<<>>)
         /\ UNCHANGED <<dateNow, sessions, currentSession, permission, notification>>
    ELSE IF Len(dueSessions) > 0
    THEN /\ notification' = [shown        |-> TRUE,
                             count        |-> Len(dueSessions),
                             firstSession |-> dueSessions[1]]
         /\ sessions' = NotifyUpdater(sessions, dueSessions, dateNow)
         /\ last' = TickResult(dueSessions)
         /\ UNCHANGED <<dateNow, currentSession, permission>>
    ELSE /\ last' = TickResult(<<>>)
         /\ UNCHANGED <<dateNow, sessions, currentSession, permission, notification>>

Next ==
    \/ Advance /\ UNCHANGED <<crossings, vocabulary, dailyProgress, progressBar, analysisVars, storageVars, timerVars>>
    \/ ProcessImageBase64 /\ UNCHANGED <<crossings, vocabulary, dailyProgress, progressBar, analysisVars, storageVars, timerVars>>
    \/ HandleManualSubmit /\ UNCHANGED <<crossings, vocabulary, dailyProgress, progressBar, analysisVars, storageVars, timerVars>>
    \/ RenderReviewCenter /\ UNCHANGED <<crossings, vocabulary, dailyProgress, progressBar, analysisVars, storageVars, timerVars>>
    \/ SelectSession /\ UNCHANGED <<crossings, vocabulary, dailyProgress, progressBar, analysisVars, storageVars, timerVars>>
    \/ NotificationClick /\ UNCHANGED <<crossings, vocabulary, dailyProgress, progressBar, analysisVars, storageVars, timerVars>>
    \/ ToggleNotifications /\ UNCHANGED <<crossings, vocabulary, dailyProgress, progressBar, analysisVars, storageVars, timerVars>>
    \/ HandleFinishLearning /\ UNCHANGED <<crossings, vocabulary, dailyProgress, progressBar, analysisVars, storageVars, timerVars>>
    \/ CheckReviews /\ UNCHANGED <<crossings, vocabulary, dailyProgress, progressBar, analysisVars, storageVars, timerVars>>

Spec == Init /\ [][Next]_vars

\* ---- the store over several due crossings -------------------------------------
\* The same handlers, with the clock moved from one stored due time to the next
\* (the ticks in between find nothing newly due), up to Horizon.
Horizon == 1 + DaysToMs(HorizonDays)

\* time passes until the due time of a stored session
AdvanceToDue ==
    /\ \E i \in 1..Len(sessions) :
          /\ sessions[i].nextReviewAt > dateNow
          /\ sessions[i].nextReviewAt <= Horizon
          /\ dateNow' = sessions[i].nextReviewAt
    /\ UNCHANGED <<sessions, currentSession, permission, notification, last, crossings,
                   vocabulary, dailyProgress, progressBar, analysisVars, storageVars, timerVars>>

\* the alerts of a run of checkReviews, counted per session
CountAlerts(cr, due) ==
    [id \in DOMAIN cr \cup due |->
        IF id \in due
        THEN [alerts        |-> (IF id \in DOMAIN cr THEN cr[id].alerts ELSE 0) + 1,
              reviewedSince |-> FALSE]
        ELSE cr[id]]

\* a completed review of a session that was alerted before
NoteReview(cr, id) ==
    IF id \in DOMAIN cr THEN [cr EXCEPT ![id].reviewedSince = TRUE] ELSE cr

\* checkReviews, with its alerts counted
CheckReviewsCounted ==
    /\ CheckReviews
    /\ crossings' = CountAlerts(crossings, last'.due)
    /\ UNCHANGED <<vocabulary, dailyProgress, progressBar, analysisVars, storageVars, timerVars>>

\* a review is followed as long as its next due time is within the horizon
HandleFinishLearningCounted ==
    /\ HandleFinishLearning
    /\ \A i \in 1..Len(sessions') : sessions'[i].nextReviewAt <= Horizon
    /\ UNCHANGED <<vocabulary, dailyProgress, progressBar, analysisVars, storageVars, timerVars>>
    /\ crossings' = NoteReview(crossings, currentSession.id)

NextCrossing ==
    \/ AdvanceToDue
    \/ ProcessImageBase64 /\ UNCHANGED <<crossings, vocabulary, dailyProgress, progressBar, analysisVars, storageVars, timerVars>>
    \/ HandleManualSubmit /\ UNCHANGED <<crossings, vocabulary, dailyProgress, progressBar, analysisVars, storageVars, timerVars>>
    \/ RenderReviewCenter /\ UNCHANGED <<crossings, vocabulary, dailyProgress, progressBar, analysisVars, storageVars, timerVars>>
    \/ SelectSession /\ UNCHANGED <<crossings, vocabulary, dailyProgress, progressBar, analysisVars, storageVars, timerVars>>
    \/ NotificationClick /\ UNCHANGED <<crossings, vocabulary, dailyProgress, progressBar, analysisVars, storageVars, timerVars>>
    \/ ToggleNotifications /\ UNCHANGED <<crossings, vocabulary, dailyProgress, progressBar, analysisVars, storageVars, timerVars>>
    \/ HandleFinishLearningCounted
    \/ CheckReviewsCounted

SpecCrossing == Init /\ [][NextCrossing]_vars

\* ---- the daily progress -----------------------------------------------------------
\* The vocabulary store and the dailyProgress memo next to the session store.  A
\* word of the vocabulary is the cleaned word the star is clicked for; the memo
\* callback runs in the render that follows a setVocabulary or setSessions call
\* (its dependencies are [vocabulary, sessions]) and in no other render.
Words == {"apple", "pear"}

\* new Date().setHours(0, 0, 0, 0)
StartOfDay(t) == t - (t % ClockUnitsPerDay)

\* mutant: every stored session counts as reviewed today
ReviewsCount_All(ses, startOfDay) == Len(ses)

\* sessions.filter(s => s.lastReviewedAt && s.lastReviewedAt >= startOfDay).length
ReviewsCount(ses, startOfDay) ==
    Len(SelectSeq(ses, LAMBDA x : Truthy(x, "lastReviewedAt")
                                  /\ x.lastReviewedAt >= startOfDay))

\* vocabulary.filter(v => v.addedAt >= startOfDay).length
NewWordsCount(voc, startOfDay) ==
    Len(SelectSeq(voc, LAMBDA v : v.addedAt >= startOfDay))

\* the callback of the dailyProgress memo, run at t
DailyProgress(voc, ses, t) ==
    [at       |-> t,
     newWords |-> NewWordsCount(voc, StartOfDay(t)),
     reviews  |-> ReviewsCount(ses, StartOfDay(t))]

IsWordInVocab(w) == \E i \in 1..Len(vocabulary) : vocabulary[i].word = w

\* the star of the word card: removes the word, or adds it with addedAt: Date.now()
ToggleStar ==
    /\ \E w \in Words :
          vocabulary' = IF IsWordInVocab(w)
                        THEN SelectSeq(vocabulary, LAMBDA v : v.word # w)
                        ELSE <<[word |-> w, addedAt |-> dateNow]>> \o vocabulary
    /\ dailyProgress' = DailyProgress(vocabulary', sessions, dateNow)
    /\ UNCHANGED <<dateNow, sessions, currentSession, permission, notification, last,
                   crossings, progressBar, analysisVars, storageVars, timerVars>>

\* the delete button of the vocabulary list
DeleteWord ==
    /\ \E i \in 1..Len(vocabulary) :
          vocabulary' = SelectSeq(vocabulary, LAMBDA v : v.word # vocabulary[i].word)
    /\ dailyProgress' = DailyProgress(vocabulary', sessions, dateNow)
    /\ UNCHANGED <<dateNow, sessions, currentSession, permission, notification, last,
                   crossings, progressBar, analysisVars, storageVars, timerVars>>

\* handleFinishLearning and the render that follows its setSessions; a review is
\* followed as long as its next due time is within the horizon
HandleFinishLearningRendered ==
    /\ HandleFinishLearning
    /\ \A i \in 1..Len(sessions') : sessions'[i].nextReviewAt <= Horizon
    /\ dailyProgress' = DailyProgress(vocabulary, sessions', dateNow)
    /\ UNCHANGED <<crossings, vocabulary, progressBar, analysisVars, storageVars, timerVars>>

\* checkReviews and, when it called setSessions, the render that follows
CheckReviewsRendered ==
    /\ CheckReviews
    /\ dailyProgress' = IF last'.issued
                        THEN DailyProgress(vocabulary, sessions', dateNow)
                        ELSE dailyProgress
    /\ UNCHANGED <<crossings, vocabulary, progressBar, analysisVars, storageVars, timerVars>>

InitProgress == Init /\ permission = "granted"

NextProgress ==
    \/ Advance /\ UNCHANGED <<crossings, vocabulary, dailyProgress, progressBar, analysisVars, storageVars, timerVars>>
    \/ ProcessImageBase64 /\ UNCHANGED <<crossings, vocabulary, dailyProgress, progressBar, analysisVars, storageVars, timerVars>>
    \/ SelectSession /\ UNCHANGED <<crossings, vocabulary, dailyProgress, progressBar, analysisVars, storageVars, timerVars>>
    \/ HandleFinishLearningRendered
    \/ CheckReviewsRendered
    \/ ToggleStar
    \/ DeleteWord

SpecProgress == InitProgress /\ [][NextProgress]_vars

\* ---- the ProgressBar -------------------------------------------------------------
\* JavaScript numbers are IEEE 754 doubles, so (current / goal) * 100 is rounded
\* twice, each time to a significand of SignificandBits bits (round to nearest,
\* ties to even).  A double is a record [m, e] that stands for m * 2^(-e); the
\* natural number m is the sequence of its digits in base 2^LimbBits, least
\* significant first, so that no intermediate value exceeds the integers of
\* TLC.
SignificandBits == 53
LimbBits == 13
Base == 2^LimbBits

RECURSIVE Limbs(_)
Limbs(n) == IF n = 0 THEN <<>> ELSE <<n % Base>> \o Limbs(n \div Base)

RECURSIVE Value(_)
Value(b) == IF b = <<>> THEN 0 ELSE Head(b) + Base * Value(Tail(b))

Zeros(k) == [i \in 1..k |-> 0]

\* b without its k least significant digits
Drop(b, k) == [i \in 1..(Len(b) - k) |-> b[i + k]]

\* the digits without leading zeros
RECURSIVE Trim(_)
Trim(b) == IF b # <<>> /\ b[Len(b)] = 0 THEN Trim(SubSeq(b, 1, Len(b) - 1)) ELSE b

IsOdd(b) == b # <<>> /\ b[1] % 2 = 1

\* the number of binary digits of n
RECURSIVE BitLength(_)
BitLength(n) == IF n = 0 THEN 0 ELSE 1 + BitLength(n \div 2)

\* the number of binary digits of b
Length(b) == IF b = <<>> THEN 0 ELSE (Len(b) - 1) * LimbBits + BitLength(b[Len(b)])

\* b * k + carry, for a small k
RECURSIVE MulLimbs(_, _, _)
MulLimbs(b, k, carry) ==
    IF b = <<>> THEN Limbs(carry)
    ELSE LET v == Head(b) * k + carry
         IN  <<v % Base>> \o MulLimbs(Tail(b), k, v \div Base)

\* quotient q and remainder r of (rem * Base^Len(b) + b) by a small d
RECURSIVE DivLimbs(_, _, _)
DivLimbs(b, d, rem) ==
    IF b = <<>> THEN [q |-> <<>>, r |-> rem]
    ELSE LET cur  == rem * Base + b[Len(b)]
             rest == DivLimbs(SubSeq(b, 1, Len(b) - 1), d, cur % d)
         IN  [q |-> rest.q \o <<cur \div d>>, r |-> rest.r]

\* b * 2^k
ShiftLeft(b, k) == Zeros(k \div LimbBits) \o MulLimbs(b, 2^(k % LimbBits), 0)

\* floor(b / 2^k)
ShiftRight(b, k) == Trim(DivLimbs(Drop(b, k \div LimbBits), 2^(k % LimbBits), 0).q)

\* round to nearest, ties to even: q, given how the dropped part compares to 1/2
RoundToEven(q, aboveHalf, exactlyHalf) ==
    IF aboveHalf \/ (exactlyHalf /\ IsOdd(q)) THEN MulLimbs(q, 1, 1) ELSE q

\* the least k with a * 2^k >= b
RECURSIVE Doublings(_, _)
Doublings(a, b) == IF a >= b THEN 0 ELSE 1 + Doublings(2 * a, b)

\* the double a / b, for integers a >= 0 and b > 0
Divide(a, b) ==
    IF a = 0 THEN [m |-> <<>>, e |-> 0]
    ELSE LET e == IF a >= b THEN SignificandBits - BitLength(a \div b)
                            ELSE SignificandBits - 1 + Doublings(a, b)
             d == DivLimbs(ShiftLeft(Limbs(a), e), b, 0)
         IN  [m |-> RoundToEven(Trim(d.q), 2 * d.r > b, 2 * d.r = b), e |-> e]

\* the double x * k, for an integer 0 < k < 2^(LimbBits - 2)
Multiply(x, k) ==
    LET y == MulLimbs(x.m, k, 0)
        s == Length(y) - SignificandBits
    IN  IF s <= 0 THEN [m |-> y, e |-> x.e]
        ELSE LET d == DivLimbs(y, 2^s, 0)
             IN  [m |-> RoundToEven(Trim(d.q), 2 * d.r > 2^s, 2 * d.r = 2^s),
                  e |-> x.e - s]

\* Math.round(x) for 0 <= x < 2^30: floor(x + 1/2)
MathRound(x) ==
    IF x.e <= 0 THEN Value(ShiftLeft(x.m, 0 - x.e))
    ELSE (Value(ShiftRight(x.m, x.e - 1)) + 1) \div 2

\* -Math.round(-x) for 0 <= x < 2^30: ceil(x - 1/2), as Math.round rounds a tie up
MathRoundNegated(x) ==
    IF x.e <= 0 THEN Value(ShiftLeft(x.m, 0 - x.e))
    ELSE LET twice == ShiftRight(x.m, x.e - 1)
             exact == Trim(ShiftLeft(twice, x.e - 1)) = x.m
         IN  Value(twice) \div 2 + (IF ~exact /\ IsOdd(twice) THEN 1 ELSE 0)

\* Math.min(Math.round((current / goal) * 100), 100), for a current >= 0.
\* n / 0 is Infinity for n > 0, which Math.min cuts to 100, and 0 / 0 is NaN,
\* which Math.round and Math.min hand on; a negative goal gives the negated
\* quotient (and -0, shown as 0, for a current of 0).
Percentage(current, goal) ==
    IF goal > 0 THEN Min(MathRound(Multiply(Divide(current, goal), 100)), 100)
    ELSE IF goal = 0 THEN (IF current = 0 THEN NaN ELSE 100)
    ELSE Min(0 - MathRoundNegated(Multiply(Divide(current, 0 - goal), 100)), 100)

\* current >= goal
IsCompleted(current, goal) == current >= goal

\* the goal slider: setGoals({...goals, dailyNewWords: parseInt(e.target.value)})
SetGoals ==
    /\ \E g \in GoalSliderMin..GoalSliderMax :
          progressBar' = [current |-> progressBar.current, goal |-> g]
    /\ UNCHANGED <<dateNow, sessions, currentSession, permission, notification, last,
                   crossings, vocabulary, dailyProgress, analysisVars, storageVars, timerVars>>

\* dailyProgress.newWords takes a new value
ReceiveProgress ==
    /\ \E c \in 0..MaxCurrent :
          progressBar' = [current |-> c, goal |-> progressBar.goal]
    /\ UNCHANGED <<dateNow, sessions, currentSession, permission, notification, last,
                   crossings, vocabulary, dailyProgress, analysisVars, storageVars, timerVars>>

\* ProgressBar({ current, goal })
RenderProgressBar ==
    /\ "percentage" \notin DOMAIN progressBar
    /\ progressBar' =
          Spread(progressBar,
                 [percentage  |-> Percentage(progressBar.current, progressBar.goal),
                  isCompleted |-> IsCompleted(progressBar.current, progressBar.goal)])
    /\ UNCHANGED <<dateNow, sessions, currentSession, permission, notification, last,
                   crossings, vocabulary, dailyProgress, analysisVars, storageVars, timerVars>>

NextProgressBar ==
    \/ SetGoals
    \/ ReceiveProgress
    \/ RenderProgressBar

SpecProgressBar == Init /\ [][NextProgressBar]_vars

\* ---- the ProgressBar with goals read from the persisted blob ---------------------
\* The mount effect applies JSON.parse(localStorage.getItem('linguist_goals'))
\* as it is; the blob is whatever was stored under the key, here a dailyNewWords
\* from -StoredGoalDepth up to the largest value of the slider.
LoadGoals ==
    /\ \E g \in (0 - StoredGoalDepth)..GoalSliderMax :
          progressBar' = [current |-> progressBar.current, goal |-> g]
    /\ UNCHANGED <<dateNow, sessions, currentSession, permission, notification, last,
                   crossings, vocabulary, dailyProgress, analysisVars, storageVars, timerVars>>

NextStoredGoals ==
    \/ LoadGoals
    \/ SetGoals
    \/ ReceiveProgress
    \/ RenderProgressBar

SpecStoredGoals == Init /\ [][NextStoredGoals]_vars

\* ---- the Analysis Service calls (src/services/gemini.ts) and their callers -------
\* response.text of a GenerateContentResponse for an image: absent, empty, blank,
\* or the text that was read
OcrTexts == {"", "   ", " Hello world "}

\* response.text of a GenerateContentResponse for a word: absent or empty, cut
\* off, well-formed JSON of another shape, or a WordDetail
JsonTexts == {"", "{\"word\": \"app", "{\"meaning\": \"fruit\"}", "{\"word\": \"apple\", ...}"}

\* what ai.models.generateContent settles with: a rejection, a response without
\* text, or a response with text
Rejection == [rejected |-> TRUE]

ResponsesTo(texts) ==
    {Rejection, EmptyObject} \cup {[text |-> t] : t \in texts}

\* a settled promise
Fulfilled(v) == [settled |-> "fulfilled", value |-> v]

Rejected == [settled |-> "rejected"]

\* String.prototype.trim
StringTrim(s) ==
    CASE s = "   "           -> ""
      [] s = " Hello world " -> "Hello world"
      [] OTHER               -> s

\* JSON.parse: the value it returns, or the SyntaxError it throws
Returns(v) == [value |-> v]

Throws == [throws |-> "SyntaxError"]

JSONParse(s) ==
    CASE s = "{}"                         -> Returns(EmptyObject)
      [] s = "{\"meaning\": \"fruit\"}"   -> Returns([meaning |-> "fruit"])
      [] s = "{\"word\": \"apple\", ...}" -> Returns([word        |-> "apple",
                                                      phonetic    |-> "apl",
                                                      definitions |-> <<>>,
                                                      examples    |-> <<>>])
      [] OTHER                            -> Throws

\* response.text?.trim() || "No text found."
ExtractTextFromImage(response) ==
    IF "rejected" \in DOMAIN response THEN Rejected
    ELSE LET trimmed == IF "text" \in DOMAIN response
                        THEN StringTrim(response.text) ELSE ""
         IN  Fulfilled(IF trimmed # "" THEN trimmed ELSE "No text found.")

\* try { return JSON.parse(response.text || '{}') } catch (e) { throw ... }
AnalyzeWord(response) ==
    IF "rejected" \in DOMAIN response THEN Rejected
    ELSE LET text   == IF "text" \in DOMAIN response /\ response.text # ""
                       THEN response.text ELSE "{}"
             parsed == JSONParse(text)
         IN  IF parsed = Throws THEN Rejected ELSE Fulfilled(parsed.value)

\* the outcome a settled call is remembered with
Settled(op, response, result) ==
    [state    |-> "settled",
     op       |-> op,
     response |-> response,
     settled  |-> result.settled,
     alert    |-> result.settled = "rejected"]

\* processImageBase64 up to its await: setLoading(true) and the call
StartProcessImageBase64 ==
    /\ call.state # "pending"
    /\ loading' = TRUE
    /\ call' = [state |-> "pending", op |-> "extractTextFromImage"]
    /\ UNCHANGED <<dateNow, sessions, currentSession, permission, notification, last,
                   crossings, vocabulary, dailyProgress, progressBar, selectedWord, storageVars, timerVars>>

\* processImageBase64 from its await on: try, catch and finally
SettleProcessImageBase64 ==
    /\ call.state = "pending"
    /\ call.op = "extractTextFromImage"
    /\ \E response \in ResponsesTo(OcrTexts) :
          LET result == ExtractTextFromImage(response)
          IN  /\ currentSession' =
                    IF result.settled = "fulfilled"
                    THEN Spread(CapturedSession(dateNow),
                                [extractedText |-> result.value])
                    ELSE currentSession
              /\ call' = Settled(call.op, response, result)
    /\ loading' = FALSE
    /\ UNCHANGED <<dateNow, sessions, permission, notification, last,
                   crossings, vocabulary, dailyProgress, progressBar, selectedWord, storageVars, timerVars>>

\* handleWordClick up to its await, for a word that is not blank after cleaning
StartHandleWordClick ==
    /\ call.state # "pending"
    /\ loading' = TRUE
    /\ call' = [state |-> "pending", op |-> "analyzeWord"]
    /\ UNCHANGED <<dateNow, sessions, currentSession, permission, notification, last,
                   crossings, vocabulary, dailyProgress, progressBar, selectedWord, storageVars, timerVars>>

\* handleWordClick from its await on: try, catch and finally
SettleHandleWordClick ==
    /\ call.state = "pending"
    /\ call.op = "analyzeWord"
    /\ \E response \in ResponsesTo(JsonTexts) :
          LET result == AnalyzeWord(response)
          IN  /\ selectedWord' =
                    IF result.settled = "fulfilled" THEN result.value ELSE selectedWord
              /\ call' = Settled(call.op, response, result)
    /\ loading' = FALSE
    /\ UNCHANGED <<dateNow, sessions, currentSession, permission, notification, last,
                   crossings, vocabulary, dailyProgress, progressBar, storageVars, timerVars>>

\* the clock stands still here: the calls read it only for the id and the dates of
\* the captured session
NextAnalysis ==
    \/ StartProcessImageBase64
    \/ SettleProcessImageBase64
    \/ StartHandleWordClick
    \/ SettleHandleWordClick
    \/ SelectSession /\ UNCHANGED <<crossings, vocabulary, dailyProgress, progressBar, analysisVars, storageVars, timerVars>>
    \/ HandleFinishLearning /\ UNCHANGED <<crossings, vocabulary, dailyProgress, progressBar, analysisVars, storageVars, timerVars>>

SpecAnalysis == InitProgress /\ [][NextAnalysis]_vars

\* ---- the persisted sessions and the mount of App -----------------------------------
\* the effects of a mount run one after the other in the order of their
\* declaration, with the state of the first render in their closures; the state
\* set by the load effect is applied by the render that follows them
\* handleFinishLearning, the render that follows and its sync effect
HandleFinishLearningSaved ==
    /\ mount.phase = "running"
    /\ HandleFinishLearning
    /\ \A i \in 1..Len(sessions') : sessions'[i].nextReviewAt <= Horizon
    /\ storage' = Item(JSONStringify(sessions'))
    /\ mount' = Running
    /\ UNCHANGED <<crossings, vocabulary, dailyProgress, progressBar, analysisVars, timerVars>>

\* checkReviews and, when it called setSessions, the render and the sync effect
CheckReviewsSaved ==
    /\ mount.phase = "running"
    /\ CheckReviews
    /\ storage' = IF last'.issued THEN Item(JSONStringify(sessions')) ELSE storage
    /\ mount' = Running
    /\ UNCHANGED <<crossings, vocabulary, dailyProgress, progressBar, analysisVars, timerVars>>

\* a capture while the App is running
ProcessImageBase64Running ==
    /\ mount.phase = "running"
    /\ ProcessImageBase64
    /\ UNCHANGED <<crossings, vocabulary, dailyProgress, progressBar, analysisVars,
                   storageVars, timerVars>>

\* the page is closed and opened again: the first render of App, with the initial
\* state of its useState calls; localStorage is what it was
Reload ==
    /\ sessions' = <<>>
    /\ currentSession' = EmptyObject
    /\ last' = NoRun
    /\ mount' = [phase |-> "rendered", saved |-> storage]
    /\ UNCHANGED <<dateNow, permission, notification, storage,
                   crossings, vocabulary, dailyProgress, progressBar, analysisVars, timerVars>>

\* the effects of the mount: the load effect reads the item and calls setSessions
\* when it is truthy (the text of an array is never empty), then the sync effect
\* writes the sessions of the first render
MountEffects ==
    /\ mount.phase = "rendered"
    /\ mount' = IF storage # Null
                THEN [phase  |-> "effectsRun",
                      saved  |-> mount.saved,
                      queued |-> JSONParseArray(storage.text)]
                ELSE [phase |-> "effectsRun", saved |-> mount.saved]
    /\ storage' = Item(JSONStringify(sessions))
    /\ UNCHANGED <<dateNow, sessions, currentSession, permission, notification, last,
                   crossings, vocabulary, dailyProgress, progressBar, analysisVars, timerVars>>

\* the render that applies the queued setSessions, and the sync effect that follows
\* it when sessions has changed
ApplyLoaded ==
    /\ mount.phase = "effectsRun"
    /\ sessions' = IF "queued" \in DOMAIN mount THEN mount.queued ELSE sessions
    /\ storage' = IF "queued" \in DOMAIN mount
                  THEN Item(JSONStringify(sessions')) ELSE storage
    /\ mount' = [phase |-> "running", saved |-> mount.saved]
    /\ UNCHANGED <<dateNow, currentSession, permission, notification, last,
                   crossings, vocabulary, dailyProgress, progressBar, analysisVars, timerVars>>

NextMount ==
    \/ Advance /\ UNCHANGED <<crossings, vocabulary, dailyProgress, progressBar, analysisVars,
                              storageVars, timerVars>>
    \/ ProcessImageBase64Running
    \/ HandleFinishLearningSaved
    \/ CheckReviewsSaved
    \/ Reload
    \/ MountEffects
    \/ ApplyLoaded

SpecMount == InitProgress /\ [][NextMount]_vars

\* ---- the interval that runs checkReviews -----------------------------------------
\* the effect that creates the interval has the dependency [sessions]: every
\* setSessions clears the interval and creates a new one, which fires a full
\* period later.  A period is TickPeriod steps of TimePasses, and much shorter than
\* a clock unit.
\* a reviewCount of MaxReviewCount stands for every larger one: the interval index
\* is min(reviewCount + 1, 5), so the counts from 5 on are rescheduled alike
Saturated(ses) ==
    [i \in 1..Len(ses) |->
        Spread(ses[i], [reviewCount |-> Min(ses[i].reviewCount, MaxReviewCount)])]

\* part of a period passes without a setSessions
TimePasses ==
    /\ interval > 0
    /\ interval' = interval - 1
    /\ UNCHANGED <<dateNow, sessions, currentSession, permission, notification, last,
                   crossings, vocabulary, dailyProgress, progressBar, analysisVars,
                   storageVars>>

\* a clock unit passes: the period has run out
AdvanceTimed ==
    /\ Advance
    /\ interval' = 0
    /\ UNCHANGED <<crossings, vocabulary, dailyProgress, progressBar, analysisVars,
                   storageVars>>

\* handleFinishLearning; the effect clears the interval and creates a new one
HandleFinishLearningTimed ==
    /\ "id" \in DOMAIN currentSession
    /\ sessions' = Saturated(FinishUpdater(sessions, currentSession, dateNow))
    /\ currentSession' = EmptyObject
    /\ last' = [op      |-> "handleFinishLearning",
                at      |-> dateNow,
                session |-> currentSession,
                before  |-> sessions]
    /\ interval' = TickPeriod
    /\ UNCHANGED <<dateNow, permission, notification,
                   crossings, vocabulary, dailyProgress, progressBar, analysisVars,
                   storageVars>>

\* the interval fires and runs checkReviews; it fires again a period later
CheckReviewsTimed ==
    /\ interval = 0
    /\ CheckReviews
    /\ interval' = TickPeriod
    /\ UNCHANGED <<crossings, vocabulary, dailyProgress, progressBar, analysisVars,
                   storageVars>>

NextTimer ==
    \/ TimePasses
    \/ AdvanceTimed
    \/ ProcessImageBase64 /\ UNCHANGED <<crossings, vocabulary, dailyProgress, progressBar,
                                         analysisVars, storageVars, timerVars>>
    \/ SelectSession /\ UNCHANGED <<crossings, vocabulary, dailyProgress, progressBar,
                                    analysisVars, storageVars, timerVars>>
    \/ HandleFinishLearningTimed
    \/ CheckReviewsTimed

\* time passes, and an interval whose period has run out fires
SpecTimer ==
    /\ InitProgress
    /\ [][NextTimer]_vars
    /\ WF_vars(TimePasses)
    /\ WF_vars(CheckReviewsTimed)

\* ---- vocabulary of the properties ----------------------------------------------
\* the last handler that wrote the store
LastFinish == last.op = "handleFinishLearning"
LastTick == last.op = "checkReviews"

\* the record of seq with this id
HasId(seq, id) == \E i \in 1..Len(seq) : seq[i].id = id
RecordOf(seq, id) == seq[CHOOSE i \in 1..Len(seq) : seq[i].id = id]

\* the last completion was of a session already in the store / of a new one
FinishedExisting == LastFinish /\ HasId(last.before, last.session.id)
FinishedNew == LastFinish /\ ~HasId(last.before, last.session.id)

\* lastNotifiedAt is absent or zero
NoWatermark(s) == "lastNotifiedAt" \notin DOMAIN s \/ s.lastNotifiedAt = 0

\* the session has been alerted for its current due time
Covered(s) == ~NoWatermark(s) /\ s.lastNotifiedAt >= s.nextReviewAt

\* the session is due at t and not yet alerted for this due time
DueUnnotified(s, t) ==
    s.nextReviewAt <= t /\ (NoWatermark(s) \/ s.lastNotifiedAt < s.nextReviewAt)

\* this step is a run of handleFinishLearning / of checkReviews
FinishStep == last' # last /\ last'.op = "handleFinishLearning"
TickStep == last' # last /\ last'.op = "checkReviews"

\* days in clock units, read from the table by its 0-based stage
TableDays(stage) == EBBINGHAUS_INTERVALS[stage + 1] * ClockUnitsPerDay

\* ---- C1 ----------------------------------------------------------------------
\* C1 (as stated): a brand-new item completed at T has reviewCount 1 and
\* nextReviewAt = T + 1 day; completed again at T2 = T + 1 day + 1 unit it has
\* reviewCount 2 and nextReviewAt = T2 + 2 days.
C1_SecondReviewAfterTwoDays ==
    /\ (FinishedNew /\ last.before = <<>>) =>
          LET r == RecordOf(sessions, last.session.id) IN
          r.reviewCount = 1 /\ r.nextReviewAt = last.at + 1 * ClockUnitsPerDay
    /\ (FinishedExisting
        /\ RecordOf(last.before, last.session.id).reviewCount = 1
        /\ last.at = RecordOf(last.before, last.session.id).lastReviewedAt
                       + ClockUnitsPerDay + 1) =>
          LET r == RecordOf(sessions, last.session.id) IN
          r.reviewCount = 2 /\ r.nextReviewAt = last.at + 2 * ClockUnitsPerDay

\* ---- C2 ----------------------------------------------------------------------
\* C2: once a stored session is covered by an alert (lastNotifiedAt >= nextReviewAt),
\* every step either is a completion of that session, or leaves it covered and is
\* no run of checkReviews that includes it in an alert.
C2_OneAlertPerDueCrossing ==
    [][\A i \in 1..Len(sessions) :
          Covered(sessions[i]) =>
             \/ FinishStep /\ last'.session.id = sessions[i].id
             \/ /\ HasId(sessions', sessions[i].id)
                /\ Covered(RecordOf(sessions', sessions[i].id))
                /\ ~(TickStep /\ sessions[i].id \in last'.due)]_vars

\* C2 witness: checkReviews ran with permission while a due session was already
\* covered, and left it out of the alert.
C2_Witness ==
    /\ LastTick /\ last.permitted
    /\ \E i \in 1..Len(last.before) :
          /\ Covered(last.before[i])
          /\ last.before[i].nextReviewAt <= last.at
          /\ last.before[i].id \notin last.due

\* ---- C3 ----------------------------------------------------------------------
\* C3 (as stated): when checkReviews runs with permission right after a run with
\* permission, at the same or a later instant and with no completion in between,
\* the first run alerts exactly if some session was newly due, and after a first
\* run that alerted the second run issues no alert.
C3_SecondRunNeverAlerts ==
    [][(LastTick /\ last.permitted /\ TickStep /\ last'.permitted) =>
          /\ last.issued <=>
                \E i \in 1..Len(last.before) : DueUnnotified(last.before[i], last.at)
          /\ last.issued => ~last'.issued]_vars

\* C3 (amended): the second run issues no alert when the instant is the same; at a
\* later instant it alerts only sessions that fell due after the first run.
C3_Idempotent ==
    [][(LastTick /\ last.permitted /\ TickStep /\ last'.permitted) =>
          /\ last.issued <=>
                \E i \in 1..Len(last.before) : DueUnnotified(last.before[i], last.at)
          /\ last'.at = last.at => (~last'.issued /\ sessions' = sessions)
          /\ \A id \in last'.due : RecordOf(sessions, id).nextReviewAt > last.at]_vars

\* C3 witness: a second run at the instant of an alert that marked a session.
C3_Witness ==
    /\ LastTick /\ last.permitted /\ ~last.issued
    /\ \E i \in 1..Len(last.before) :
          /\ ~NoWatermark(last.before[i])
          /\ last.before[i].lastNotifiedAt = last.at

\* ---- C4 ----------------------------------------------------------------------
\* C4: a completion of a stored session never moves its nextReviewAt earlier.
C4_NextReviewAtMonotonic ==
    FinishedExisting =>
        RecordOf(sessions, last.session.id).nextReviewAt
            >= RecordOf(last.before, last.session.id).nextReviewAt

\* C4 witness: a completion before the due time, of a session on the plateau.
C4_Witness ==
    /\ FinishedExisting
    /\ RecordOf(last.before, last.session.id).nextReviewAt > last.at
    /\ RecordOf(last.before, last.session.id).reviewCount
          >= Len(EBBINGHAUS_INTERVALS) - 1

\* ---- C5 ----------------------------------------------------------------------
\* C5: the store is empty until a handler writes it; a completion raises the
\* reviewCount of its session by exactly 1 and leaves every other one alone; a run
\* of checkReviews leaves every reviewCount alone; no other step changes one.
C5_ReviewCountStepsByOne ==
    /\ last = NoRun => sessions = <<>>
    /\ last # NoRun =>
          \A i \in 1..Len(last.before) :
             LET b == last.before[i] IN
             /\ HasId(sessions, b.id)
             /\ RecordOf(sessions, b.id).reviewCount =
                   IF LastFinish /\ last.session.id = b.id
                   THEN b.reviewCount + 1 ELSE b.reviewCount

\* C5 witness: a completion made from a stale snapshot of the session.
C5_Witness ==
    /\ FinishedExisting
    /\ last.session.reviewCount
          < RecordOf(last.before, last.session.id).reviewCount
    /\ Len(last.before) = 2

\* ---- C6 ----------------------------------------------------------------------
\* C6: the first completion of an id at t stores reviewCount 1, lastReviewedAt t,
\* nextReviewAt t + IntervalTable[0] days and no watermark.
C6_FirstCompletion ==
    FinishedNew =>
        LET r == RecordOf(sessions, last.session.id) IN
        /\ r.reviewCount = 1
        /\ r.lastReviewedAt = last.at
        /\ r.nextReviewAt = last.at + TableDays(0)
        /\ NoWatermark(r)

\* C6 witness: a first completion later than the capture, whose snapshot carried
\* another schedule.
C6_Witness ==
    /\ FinishedNew
    /\ last.session.nextReviewAt # last.at + TableDays(0)
    /\ last.session.reviewCount = 0

\* ---- C7 ----------------------------------------------------------------------
\* C7: a completion at t of a stored session with reviewCount c stores
\* reviewCount c + 1, lastReviewedAt t, nextReviewAt t + IntervalTable[min(c + 1,
\* last index)] days and lastNotifiedAt 0.
C7_LaterCompletion ==
    FinishedExisting =>
        LET c == RecordOf(last.before, last.session.id).reviewCount
            r == RecordOf(sessions, last.session.id)
        IN  /\ r.reviewCount = c + 1
            /\ r.lastReviewedAt = last.at
            /\ r.nextReviewAt =
                  last.at + TableDays(IF c + 1 <= 5 THEN c + 1 ELSE 5)
            /\ "lastNotifiedAt" \in DOMAIN r /\ r.lastNotifiedAt = 0

\* C7 witness: a completion of an alerted session, whose counter passes the table.
C7_Witness ==
    /\ FinishedExisting
    /\ RecordOf(sessions, last.session.id).reviewCount > Len(EBBINGHAUS_INTERVALS)
    /\ \E i \in 1..Len(last.before) : Covered(last.before[i])

\* ---- C8 ----------------------------------------------------------------------
\* C8: every stored schedule is a number later than the review it was computed at,
\* and a session whose stage index reached the table length is scheduled the last
\* table entry (30 days) after its review.
C8_Plateau ==
    \A i \in 1..Len(sessions) :
        LET s == sessions[i] IN
        /\ s.nextReviewAt # NaN
        /\ s.nextReviewAt > s.lastReviewedAt
        /\ s.reviewCount >= Len(EBBINGHAUS_INTERVALS) =>
              s.nextReviewAt = s.lastReviewedAt + 30 * ClockUnitsPerDay

\* C8 witness: a session completed with a stage index beyond the table length.
C8_Witness ==
    \E i \in 1..Len(sessions) : sessions[i].reviewCount > Len(EBBINGHAUS_INTERVALS)

\* ---- C9 ----------------------------------------------------------------------
\* C9: after a run of checkReviews with permission at t, every session that was
\* newly due at t carries lastNotifiedAt = t; and with a single record alerted at
\* its due time T, the run at T + 1 unit issues no alert and writes nothing.
C9_WatermarkIsAlertTime ==
    /\ (LastTick /\ last.permitted) =>
          \A i \in 1..Len(last.before) :
             DueUnnotified(last.before[i], last.at) =>
                /\ last.issued
                /\ RecordOf(sessions, last.before[i].id).lastNotifiedAt = last.at
    /\ (LastTick /\ last.permitted /\ Len(last.before) = 1
        /\ ~NoWatermark(last.before[1])
        /\ last.before[1].lastNotifiedAt = last.before[1].nextReviewAt
        /\ last.at = last.before[1].nextReviewAt + 1) =>
          ~last.issued /\ sessions = last.before

\* C9 witness: an alert issued later than the due time of a session it covers.
C9_Witness ==
    /\ LastTick /\ last.issued
    /\ \E i \in 1..Len(last.before) :
          /\ last.before[i].id \in last.due
          /\ last.before[i].nextReviewAt < last.at

\* ---- C10 ---------------------------------------------------------------------
\* C10: a run of checkReviews while the permission is not 'granted' issues no
\* alert and writes no record.
C10_NoPermissionNoEffect ==
    [][(TickStep /\ permission # "granted") =>
          /\ ~last'.issued
          /\ UNCHANGED <<sessions, notification, currentSession>>]_vars

\* C10 witness: checkReviews ran without permission over a session that is due and
\* not alerted, and the session is still so.
C10_Witness ==
    /\ LastTick /\ ~last.permitted /\ permission # "granted"
    /\ \E i \in 1..Len(sessions) : DueUnnotified(sessions[i], last.at)

\* ---- C11 ---------------------------------------------------------------------
\* C11: the sessions a run of checkReviews with permission alerts are exactly the
\* stored ones with nextReviewAt <= now and lastNotifiedAt absent, zero or earlier
\* than nextReviewAt.
C11_NewlyDueExact ==
    (LastTick /\ last.permitted) =>
        last.due = {last.before[i].id : i \in
                      {j \in 1..Len(last.before) :
                          /\ last.before[j].nextReviewAt <= last.at
                          /\ \/ "lastNotifiedAt" \notin DOMAIN last.before[j]
                             \/ last.before[j].lastNotifiedAt = 0
                             \/ last.before[j].lastNotifiedAt
                                   < last.before[j].nextReviewAt}}

\* C11 witness: a run that alerts a session falling due at that very instant,
\* leaves out a due session already alerted, over a store that also held a
\* session not yet due at an earlier run.
C11_Witness ==
    /\ LastTick /\ last.permitted
    /\ \E i, j \in 1..Len(last.before) :
          /\ last.before[i].nextReviewAt = last.at
          /\ last.before[i].id \in last.due
          /\ Covered(last.before[j])
          /\ last.before[j].nextReviewAt <= last.at
          /\ last.before[j].id \notin last.due

\* ---- C16 ---------------------------------------------------------------------
\* C16: handleFinishLearning replaces the record with the session's id where it
\* stands, every other record and the length unchanged, or, when there is none,
\* puts the new record in front of the unchanged store.
C16_WholeRecordReplacement ==
    [][FinishStep =>
          IF HasId(sessions, last'.session.id)
          THEN /\ Len(sessions') = Len(sessions)
               /\ \A i \in 1..Len(sessions) :
                     IF sessions[i].id = last'.session.id
                     THEN sessions'[i].id = sessions[i].id
                     ELSE sessions'[i] = sessions[i]
          ELSE /\ Len(sessions') = Len(sessions) + 1
               /\ sessions'[1].id = last'.session.id
               /\ Tail(sessions') = sessions]_vars

\* C16 witness: a replacement at the second place of the store, and before it a
\* store of two built by prepending.
C16_Witness ==
    /\ FinishedExisting
    /\ Len(last.before) = 2
    /\ last.before[2].id = last.session.id
    /\ sessions[2].id = last.session.id
    /\ sessions[1] = last.before[1]
    /\ sessions[1].createdAt > sessions[2].createdAt

\* ---- C18 ---------------------------------------------------------------------
\* C18: a run of checkReviews with permission and no newly-due session shows no
\* notification and writes nothing; with newly-due sessions it shows one
\* notification, whose count is their number and whose target is the first of
\* them in store order.
C18_OneAggregateAlert ==
    [][(TickStep /\ permission = "granted") =>
          LET D == {i \in 1..Len(sessions) : DueUnnotified(sessions[i], dateNow)} IN
          IF D = {}
          THEN ~last'.issued /\ UNCHANGED <<sessions, notification>>
          ELSE /\ last'.issued
               /\ notification'.shown
               /\ notification'.count = Cardinality(D)
               /\ notification'.firstSession =
                     sessions[CHOOSE i \in D : \A j \in D : i <= j]]_vars

\* C18 witness: one notification for two newly-due sessions, the target the first
\* of the store.
C18_Witness ==
    /\ LastTick /\ last.issued
    /\ notification.shown
    /\ notification.count = 2
    /\ notification.firstSession = last.before[1]

\* ---- C19 ---------------------------------------------------------------------
\* C19 (as stated): in every step that is not a completion of a stored record,
\* the record stays in the store with all its fields unchanged.
C19_OnlyCompletionMutates ==
    [][\A i \in 1..Len(sessions) :
          ~(FinishStep /\ last'.session.id = sessions[i].id) =>
             /\ HasId(sessions', sessions[i].id)
             /\ RecordOf(sessions', sessions[i].id) = sessions[i]]_vars

\* C19 (amended): in every step that is not a completion of a stored record, the
\* record keeps all its fields, except that a run of checkReviews that alerts it
\* writes lastNotifiedAt = now.
C19_OnlyCompletionOrAlertMutates ==
    [][\A i \in 1..Len(sessions) :
          ~(FinishStep /\ last'.session.id = sessions[i].id) =>
             /\ HasId(sessions', sessions[i].id)
             /\ LET r == RecordOf(sessions', sessions[i].id) IN
                IF TickStep /\ sessions[i].id \in last'.due
                THEN r = [k \in DOMAIN sessions[i] \cup {"lastNotifiedAt"} |->
                            IF k = "lastNotifiedAt" THEN dateNow ELSE sessions[i][k]]
                ELSE r = sessions[i]]_vars

\* C19 witness: after a completion of one session, the other one still carries
\* the watermark an alert wrote.
C19_Witness ==
    /\ FinishedExisting
    /\ \E i \in 1..Len(sessions) :
          /\ sessions[i].id # last.session.id
          /\ Covered(sessions[i])
          /\ sessions[i] = RecordOf(last.before, sessions[i].id)

\* ---- C20 ---------------------------------------------------------------------
\* C20: no step removes a record from the store or changes the id or the
\* createdAt of a stored record.
C20_NeverDeleted ==
    [][\A i \in 1..Len(sessions) :
          /\ HasId(sessions', sessions[i].id)
          /\ RecordOf(sessions', sessions[i].id).createdAt = sessions[i].createdAt]_vars

\* C20 witness: a store of two records after a completion of a new session and a
\* run of checkReviews that alerted.
C20_Witness ==
    /\ LastTick /\ last.issued
    /\ Len(sessions) = 2
    /\ \E i \in 1..2 : sessions[i].reviewCount >= 2

\* ---- C17 ---------------------------------------------------------------------
\* C17: a session that was alerted and has been reviewed since is newly due again
\* at the first run of checkReviews at or after its new nextReviewAt: with the
\* permission granted that run issues an alert covering it and counts one more
\* alert for it.
C17_AlertAgainAfterReview ==
    [][(last' # last /\ last'.op = "checkReviews" /\ permission = "granted") =>
          \A i \in 1..Len(sessions) :
             LET id == sessions[i].id IN
             (/\ id \in DOMAIN crossings
              /\ crossings[id].reviewedSince
              /\ sessions[i].nextReviewAt <= dateNow)
             => /\ last'.issued
                /\ id \in last'.due
                /\ notification'.shown
                /\ crossings'[id].alerts = crossings[id].alerts + 1
                /\ RecordOf(sessions', id).lastNotifiedAt = dateNow]_vars

\* C17 witness: a session alerted a second time, after the review that followed
\* its first alert moved its due time.
C17_Witness ==
    /\ LastTick /\ last.issued
    /\ \E id \in last.due :
          /\ crossings[id].alerts = 2
          /\ RecordOf(last.before, id).reviewCount >= 1
          /\ RecordOf(last.before, id).lastNotifiedAt = 0
          /\ RecordOf(last.before, id).nextReviewAt <= last.at

\* ---- C12 ---------------------------------------------------------------------
\* sessions.filter(s => s.nextReviewAt <= now): the due sessions of the dashboard
DueList(records, t) == SelectSeq(records, LAMBDA s : s.nextReviewAt <= t)

\* C12: the due sessions are the records with nextReviewAt <= now in the order
\* of the store, and a step that runs neither handleFinishLearning nor
\* checkReviews (a render computing them) leaves that list as it was.
C12_DueSessionsPure ==
    [][last' = last =>
          /\ \A i \in 1..Len(sessions') :
                sessions'[i].nextReviewAt <= dateNow
                    => \E j \in 1..Len(DueList(sessions', dateNow)) :
                          DueList(sessions', dateNow)[j] = sessions'[i]
          /\ DueList(sessions', dateNow) = DueList(sessions, dateNow)]_vars

\* ---- C13 ---------------------------------------------------------------------
\* C13: the daily progress exposed at any instant counts the vocabulary items of
\* the calendar day containing that instant, also when the day has changed and
\* no store has changed since.
C13_ProgressOfToday ==
    LET today == dateNow - (dateNow % ClockUnitsPerDay) IN
    dailyProgress.newWords =
        Cardinality({i \in 1..Len(vocabulary) : vocabulary[i].addedAt >= today})

C15_PercentageFormula ==
    "percentage" \in DOMAIN progressBar =>
        LET c == progressBar.current
            g == progressBar.goal
        IN  /\ progressBar.percentage = Min((200 * c + g) \div (2 * g), 100)
            /\ progressBar.percentage \in 0..100
            /\ progressBar.isCompleted = (c >= g)

\* ---- C21 ---------------------------------------------------------------------
\* C21: a completion of a stored session applies an interval (the distance from
\* the review to the next due time) that is not shorter than the one applied at
\* its previous completion, and does not lower its reviewCount.
C21_IntervalsNeverShrink ==
    FinishedExisting =>
        LET old == RecordOf(last.before, last.session.id)
            new == RecordOf(sessions, last.session.id)
        IN  /\ new.reviewCount >= old.reviewCount
            /\ new.lastReviewedAt = last.at
            /\ new.nextReviewAt - new.lastReviewedAt
                  >= old.nextReviewAt - old.lastReviewedAt

\* C21 witness: a third completion, whose interval is longer than the second one.
C21_Witness ==
    /\ FinishedExisting
    /\ LET old == RecordOf(last.before, last.session.id)
           new == RecordOf(sessions, last.session.id)
       IN  /\ old.reviewCount = 2
           /\ new.nextReviewAt - new.lastReviewedAt
                 > old.nextReviewAt - old.lastReviewedAt

\* ---- C22 ---------------------------------------------------------------------
\* C22: a ProgressBar rendered with a goal <= 0 shows the percentage 100 and the
\* completed flag, for every current >= 0.
C22_NonPositiveGoalIsSatisfied ==
    ("percentage" \in DOMAIN progressBar /\ progressBar.goal <= 0) =>
        /\ progressBar.percentage = 100
        /\ progressBar.isCompleted

\* ---- C23 ---------------------------------------------------------------------
\* the response is a failed call, has no text or a blank one, cannot be parsed, or
\* parses to something that is not of the schema asked for
IsWordDetail(v) == {"word", "phonetic", "definitions", "examples"} \subseteq DOMAIN v

MalformedOrFailed(op, response) ==
    \/ "rejected" \in DOMAIN response
    \/ "text" \notin DOMAIN response
    \/ StringTrim(response.text) = ""
    \/ /\ op = "analyzeWord"
       /\ \/ JSONParse(response.text) = Throws
          \/ ~IsWordDetail(JSONParse(response.text).value)

\* C23: every malformed or failed Analysis Service response (failed call, empty or
\* missing response text, unparsable or schema-mismatching output) reaches the
\* caller as a failure, never as a successful result; on it the caller makes no
\* retry, the session store and the current session are unchanged, and the loading
\* flag returns to false.
C23_MalformedResponseIsFailure ==
    [][(call.state = "pending" /\ call'.state = "settled"
            /\ MalformedOrFailed(call'.op, call'.response))
       => /\ call'.settled = "rejected"
          /\ call'.alert
          /\ UNCHANGED <<sessions, currentSession, selectedWord>>
          /\ loading' = FALSE]_vars

\* ---- C24 ---------------------------------------------------------------------
\* C24: in every state reached from the empty store, each stored record has
\* lastNotifiedAt absent or zero, or lastNotifiedAt >= nextReviewAt: a watermark
\* other than zero belongs to the current due time of the record and does not
\* survive a reschedule.
C24_WatermarkOfCurrentCycle ==
    \A i \in 1..Len(sessions) : NoWatermark(sessions[i]) \/ Covered(sessions[i])

\* C24 witness: a record that carried a watermark was rescheduled and carries none
\* now, while the store holds a record alerted for its current due time
C24_Witness ==
    /\ FinishedExisting
    /\ Covered(RecordOf(last.before, last.session.id))
    /\ NoWatermark(RecordOf(sessions, last.session.id))
    /\ \E i \in 1..Len(sessions) : Covered(sessions[i])

\* ---- C27 ---------------------------------------------------------------------
\* C27: in every state reached from the empty store no two stored records share an
\* id: a completion whose id is already in the store updates that record and adds
\* no second one, for every interleaving of captures, completions and ticks.
C27_IdsAreUnique ==
    \A i, j \in 1..Len(sessions) : sessions[i].id = sessions[j].id => i = j

\* C27 witness: a freshly captured session whose id was already in the store (a
\* capture in the clock unit of an earlier one) was completed, and the store kept
\* its length
C27_Witness ==
    /\ FinishedExisting
    /\ last.session.reviewCount = 0
    /\ Len(sessions) = Len(last.before)
    /\ RecordOf(sessions, last.session.id).reviewCount = 2

\* ---- C28 ---------------------------------------------------------------------
\* the current session is a captured one that was never completed
PreReview(cur) ==
    /\ "id" \in DOMAIN cur
    /\ cur.reviewCount = 0
    /\ cur.nextReviewAt = cur.createdAt + DaysToMs(1)

\* C28: the store never holds a pre-review record.  Every stored record has
\* reviewCount >= 1 and a lastReviewedAt; a captured session (reviewCount 0, due one
\* day after its capture) is only the current session, and a tick reports as due
\* only records of the store; and the dailyProgress computed at a first completion
\* counts that completion among the reviews of the day.
C28_NoPreReviewRecord ==
    /\ \A i \in 1..Len(sessions) :
          /\ sessions[i].reviewCount >= 1
          /\ Truthy(sessions[i], "lastReviewedAt")
    /\ LastTick =>
          \A id \in last.due :
              /\ HasId(last.before, id)
              /\ RecordOf(last.before, id).reviewCount >= 1
    /\ (FinishedNew /\ dailyProgress.at = last.at) =>
          dailyProgress.reviews = 1 + ReviewsCount(last.before, StartOfDay(last.at))

\* C28 witness: a captured session that was only the current session until after
\* its due time was completed for the first time and is counted in the reviews of
\* the day
C28_Witness ==
    /\ FinishedNew
    /\ PreReview(last.session)
    /\ last.session.nextReviewAt <= last.at
    /\ dailyProgress.at = last.at
    /\ dailyProgress.reviews >= 1
    /\ Len(sessions) = 1

\* ---- C26 ---------------------------------------------------------------------
\* sessions were saved before this start of the App
SavedBeforeStartup == "saved" \in DOMAIN mount /\ mount.saved # Null /\ mount.saved.text # <<>>

\* C26: whenever the persisted 'linguist_sessions' item is written it equals the
\* in-memory store; at a startup with saved sessions the item is not overwritten
\* with the empty initial state before the loaded sessions have been applied, and
\* after the startup the in-memory store equals the sessions saved before it.
C26_PersistedMirror ==
    /\ mount.phase = "running" => storage = Item(JSONStringify(sessions))
    /\ (SavedBeforeStartup /\ mount.phase = "effectsRun") =>
          storage # Item(JSONStringify(<<>>))
    /\ (SavedBeforeStartup /\ mount.phase = "running") =>
          sessions = JSONParseArray(mount.saved.text)

\* ---- C25 ---------------------------------------------------------------------
\* the permission is granted and a stored session is due and not alerted for its
\* due time
DueAndSilent ==
    /\ permission = "granted"
    /\ \E i \in 1..Len(sessions) : DueUnnotified(sessions[i], dateNow)

\* C25: when the permission is granted and a session stays due and not alerted, an
\* alert that covers it is issued in the end, also when the store keeps changing
\* and every change restarts the interval, time passing and the interval firing
\* when its period has run out.
C25_DueIsAlertedInTheEnd == DueAndSilent ~> ~DueAndSilent

====
